---- MODULE Spec2Model ----
\* Model of the JupyterLab Code Interpreter extension (src/src/index.ts):
\* the transcript builder, the streaming router, the generation driver and
\* the session controller.  Text is modelled as sequences of one-character
\* strings, so that prefix tests, JSON repair, JSON parsing and JSON
\* encoding are computed character by character as the code computes them.
EXTENDS Integers, Sequences, FiniteSets, TLC

\* ------------------------------------------------------------------
\* Text helpers (JavaScript string primitives used by the source)
\* ------------------------------------------------------------------

QUOTE == "\""
BSLASH == "\\"
NL == "\n"
CR == "\r"
TAB == "\t"

\* String.prototype.startsWith
StartsWith(s, p) == Len(s) >= Len(p) /\ SubSeq(s, 1, Len(p)) = p

\* the whitespace class \s of a JavaScript regular expression, over the alphabet
RegexSpace == {" ", NL, CR, TAB}

\* the literal '__Assistant:__'
AssistantMarker == <<"_", "_", "A", "s", "s", "i", "s", "t", "a", "n", "t", ":", "_", "_">>

RECURSIVE DropSpace(_)
\* the \s* part of source.replace(/^__Assistant:__\s*/, '')
DropSpace(s) ==
  IF s # <<>> /\ Head(s) \in RegexSpace THEN DropSpace(Tail(s)) ELSE s

\* source.replace(/^__Assistant:__\s*/, '')
StripMarker(source) ==
  IF StartsWith(source, AssistantMarker)
  THEN DropSpace(SubSeq(source, Len(AssistantMarker) + 1, Len(source)))
  ELSE source

\* ------------------------------------------------------------------
\* cleanJson
\* ------------------------------------------------------------------

RECURSIVE cleanJsonFrom(_, _, _, _)
\* the loop of cleanJson: i is the index, inQuotes the flag, cleanedJson the result
cleanJsonFrom(origJson, i, inQuotes, cleanedJson) ==
  IF i > Len(origJson) THEN cleanedJson
  ELSE LET q == IF origJson[i] = QUOTE THEN ~inQuotes ELSE inQuotes
       IN IF origJson[i] = NL /\ q
          THEN cleanJsonFrom(origJson, i + 1, q, cleanedJson \o <<BSLASH, "n">>)
          ELSE cleanJsonFrom(origJson, i + 1, q, Append(cleanedJson, origJson[i]))

cleanJson(origJson) == cleanJsonFrom(origJson, 1, FALSE, <<>>)

\* ------------------------------------------------------------------
\* JSON.parse and JSON.stringify, restricted to the texts the alphabet can
\* spell: objects whose members are strings or nested objects.  Numbers,
\* arrays, literals and \u escapes need characters outside the alphabet.
\* ------------------------------------------------------------------

JsonSpace == {" ", NL, CR, TAB}
ControlChars == {NL, CR, TAB}

JsonFail == [ok |-> FALSE, next |-> 0, str |-> <<>>, members |-> <<>>]

RECURSIVE JsonSkip(_, _)
JsonSkip(s, i) ==
  IF i <= Len(s) /\ s[i] \in JsonSpace THEN JsonSkip(s, i + 1) ELSE i

\* the character an escape letter stands for, "" when it is no escape
Unescape(e) ==
  CASE e = QUOTE -> QUOTE
    [] e = BSLASH -> BSLASH
    [] e = "/" -> "/"
    [] e = "n" -> NL
    [] e = "r" -> CR
    [] e = "t" -> TAB
    [] OTHER -> ""

RECURSIVE JsonStringBody(_, _, _)
\* the characters of a string literal after its opening quote
JsonStringBody(s, i, acc) ==
  IF i > Len(s) THEN JsonFail
  ELSE IF s[i] = QUOTE THEN [ok |-> TRUE, next |-> i + 1, str |-> acc, members |-> <<>>]
  ELSE IF s[i] = BSLASH
       THEN IF i + 1 > Len(s) \/ Unescape(s[i + 1]) = "" THEN JsonFail
            ELSE JsonStringBody(s, i + 2, Append(acc, Unescape(s[i + 1])))
  ELSE IF s[i] \in ControlChars THEN JsonFail
  ELSE JsonStringBody(s, i + 1, Append(acc, s[i]))

JsonString(s, i) ==
  IF i <= Len(s) /\ s[i] = QUOTE THEN JsonStringBody(s, i + 1, <<>>) ELSE JsonFail

RECURSIVE JsonObject(_, _)
RECURSIVE JsonMembers(_, _, _)
\* a value: a string, or a nested object (kept as the marker isObject)
JsonValue(s, i) ==
  IF i <= Len(s) /\ s[i] = "{"
  THEN LET o == JsonObject(s, i)
       IN IF o.ok THEN [ok |-> TRUE, next |-> o.next, isObject |-> TRUE, str |-> <<>>]
          ELSE [ok |-> FALSE, next |-> 0, isObject |-> FALSE, str |-> <<>>]
  ELSE LET v == JsonString(s, i)
       IN [ok |-> v.ok, next |-> v.next, isObject |-> FALSE, str |-> v.str]

\* members after '{' or ',': "key" : value, then ',' or '}'
JsonMembers(s, i, acc) ==
  LET k == JsonString(s, JsonSkip(s, i))
  IN IF ~k.ok THEN JsonFail
     ELSE LET c == JsonSkip(s, k.next)
          IN IF c > Len(s) \/ s[c] # ":" THEN JsonFail
             ELSE LET v == JsonValue(s, JsonSkip(s, c + 1))
                  IN IF ~v.ok THEN JsonFail
                     ELSE LET e == JsonSkip(s, v.next)
                              m == Append(acc, [key |-> k.str, isObject |-> v.isObject,
                                                value |-> v.str])
                          IN IF e > Len(s) THEN JsonFail
                             ELSE IF s[e] = "}"
                                  THEN [ok |-> TRUE, next |-> e + 1, str |-> <<>>, members |-> m]
                             ELSE IF s[e] = "," THEN JsonMembers(s, e + 1, m)
                             ELSE JsonFail

JsonObject(s, i) ==
  IF i > Len(s) \/ s[i] # "{" THEN JsonFail
  ELSE LET j == JsonSkip(s, i + 1)
       IN IF j <= Len(s) /\ s[j] = "}"
          THEN [ok |-> TRUE, next |-> j + 1, str |-> <<>>, members |-> <<>>]
          ELSE JsonMembers(s, j, <<>>)

\* JSON.parse of a text that starts with '{': ok = FALSE models the SyntaxError
JsonParse(s) ==
  LET o == JsonObject(s, JsonSkip(s, 1))
  IN IF o.ok /\ JsonSkip(s, o.next) > Len(s) THEN o ELSE JsonFail

\* 'key' in json
JsonHas(json, key) == \E n \in 1..Len(json.members) : json.members[n].key = key

\* json[key]: the last member of that name wins
JsonGet(json, key) ==
  LET n == CHOOSE n \in 1..Len(json.members) :
             /\ json.members[n].key = key
             /\ \A m \in (n + 1)..Len(json.members) : json.members[m].key # key
  IN json.members[n]

RECURSIVE JsonQuoteBody(_)
\* the escaping JSON.stringify applies inside a string literal
JsonQuoteBody(s) ==
  IF s = <<>> THEN <<>>
  ELSE LET c == Head(s)
           e == CASE c = QUOTE -> <<BSLASH, QUOTE>>
                  [] c = BSLASH -> <<BSLASH, BSLASH>>
                  [] c = NL -> <<BSLASH, "n">>
                  [] c = CR -> <<BSLASH, "r">>
                  [] c = TAB -> <<BSLASH, "t">>
                  [] OTHER -> <<c>>
       IN e \o JsonQuoteBody(Tail(s))

JsonQuote(s) == <<QUOTE>> \o JsonQuoteBody(s) \o <<QUOTE>>

KeyLanguage == <<"l", "a", "n", "g", "u", "a", "g", "e">>
KeyCode == <<"c", "o", "d", "e">>
Python == <<"p", "y", "t", "h", "o", "n">>

\* JSON.stringify({ language: "python", code: source })
StringifyRunCode(source) ==
  <<"{">> \o JsonQuote(KeyLanguage) \o <<":">> \o JsonQuote(Python) \o <<",">>
    \o JsonQuote(KeyCode) \o <<":">> \o JsonQuote(source) \o <<"}">>

\* ------------------------------------------------------------------
\* parseCellOutput and convertNotebookToMessages
\* ------------------------------------------------------------------

\* one output record of a code cell: isObject is typeof output === 'object'
\* (and not null), has* are the 'x' in output tests
Output(isObject, hasText, text, hasData, plain, hasEname, ename, evalue) ==
  [isObject |-> isObject, hasText |-> hasText, text |-> text, hasData |-> hasData,
   plain |-> plain, hasEname |-> hasEname, ename |-> ename, evalue |-> evalue]

\* the record's contribution with the rich data put before the text
OutputTextDataFirst(output) ==
  IF ~output.isObject THEN <<>>
  ELSE (IF output.hasData THEN output.plain ELSE <<>>)
       \o (IF output.hasText THEN output.text ELSE <<>>)
       \o (IF output.hasEname THEN output.ename \o <<":", " ">> \o output.evalue ELSE <<>>)

\* what one record adds to extractedOutput
OutputText(output) ==
  IF ~output.isObject THEN <<>>
  ELSE (IF output.hasText THEN output.text ELSE <<>>)
       \o (IF output.hasData THEN output.plain ELSE <<>>)
       \o (IF output.hasEname THEN output.ename \o <<":", " ">> \o output.evalue ELSE <<>>)

RECURSIVE parseCellOutput(_)
parseCellOutput(outputs) ==
  IF outputs = <<>> THEN <<>>
  ELSE OutputText(Head(outputs)) \o parseCellOutput(Tail(outputs))

\* the system persona text, abbreviated
systemMessage == <<"S">>

Message(role, content) ==
  [role |-> role, content |-> content, has_function_call |-> FALSE,
   function_call |-> [name |-> "", arguments |-> <<>>], name |-> ""]

\* lastMessage.function_call = { name: 'run_code', arguments: JSON.stringify(...) }
WithRunCode(message, source) ==
  [message EXCEPT !.has_function_call = TRUE,
                  !.function_call = [name |-> "run_code", arguments |-> StringifyRunCode(source)]]

\* { role: "function", name: "run_code", content: functionOutput }
FunctionMessage(functionOutput) ==
  [Message("function", functionOutput) EXCEPT !.name = "run_code"]

\* the three grave accents of a code fence; the parser rejects a grave accent
\* inside a string, so each is written as an apostrophe
Fence == <<"'", "'", "'">>

\* the fenced code block of the user message: fence, source, fence, "Output:", output
FencedCode(source, functionOutput) ==
  Fence \o <<NL>> \o source \o <<NL>> \o Fence \o <<"O", "u", "t", "p", "u", "t", ":", NL>>
    \o functionOutput

\* the loop body without the continue of line 164: the user message is pushed too
ConvertCellNoContinue(cell, messages) ==
  IF cell.cell_type = "markdown"
  THEN IF StartsWith(cell.source, AssistantMarker)
       THEN Append(messages, Message("assistant", StripMarker(cell.source)))
       ELSE Append(messages, Message("user", cell.source))
  ELSE LET functionOutput == parseCellOutput(cell.outputs)
           lastMessage == messages[Len(messages)]
           user == Message("user", FencedCode(cell.source, functionOutput))
       IN IF functionOutput # <<>> /\ lastMessage.role = "assistant"
          THEN Append(Append([messages EXCEPT ![Len(messages)] =
                                WithRunCode(lastMessage, cell.source)],
                             FunctionMessage(functionOutput)), user)
          ELSE Append(messages, user)

\* the loop body without the test of line 156: the call is attached to the last
\* message whatever its role
ConvertCellAnyRole(cell, messages) ==
  IF cell.cell_type = "markdown"
  THEN IF StartsWith(cell.source, AssistantMarker)
       THEN Append(messages, Message("assistant", StripMarker(cell.source)))
       ELSE Append(messages, Message("user", cell.source))
  ELSE LET functionOutput == parseCellOutput(cell.outputs)
           lastMessage == messages[Len(messages)]
       IN IF functionOutput # <<>>
          THEN Append([messages EXCEPT ![Len(messages)] = WithRunCode(lastMessage, cell.source)],
                      FunctionMessage(functionOutput))
          ELSE Append(messages, Message("user", FencedCode(cell.source, functionOutput)))

\* the body of the loop of convertNotebookToMessages for one cell
ConvertCell(cell, messages) ==
  IF cell.cell_type = "markdown"
  THEN IF StartsWith(cell.source, AssistantMarker)
       THEN Append(messages, Message("assistant", StripMarker(cell.source)))
       ELSE Append(messages, Message("user", cell.source))
  ELSE LET functionOutput == parseCellOutput(cell.outputs)
           lastMessage == messages[Len(messages)]
       IN IF functionOutput # <<>> /\ lastMessage.role = "assistant"
          THEN Append([messages EXCEPT ![Len(messages)] = WithRunCode(lastMessage, cell.source)],
                      FunctionMessage(functionOutput))
          ELSE Append(messages, Message("user", FencedCode(cell.source, functionOutput)))

RECURSIVE ConvertFrom(_, _, _, _)
\* for (let i = 0; i <= activeCellIndex; i++): cells are numbered from 1 here
ConvertFrom(cells, i, activeCellIndex, messages) ==
  IF i > activeCellIndex THEN messages
  ELSE IF i > Len(cells) THEN ConvertFrom(cells, i + 1, activeCellIndex, messages)
  ELSE ConvertFrom(cells, i + 1, activeCellIndex, ConvertCell(cells[i], messages))

convertNotebookToMessages(notebook) ==
  ConvertFrom(notebook.cells, 1, notebook.activeCellIndex, <<Message("system", systemMessage)>>)

\* ------------------------------------------------------------------
\* Host notebook primitives (the commands the extension executes)
\* ------------------------------------------------------------------

\* a fresh cell: the host inserts code cells
NewCell == [cell_type |-> "code", source |-> <<>>, outputs |-> <<>>, runs |-> 0, busy |-> FALSE]

ActiveCell(notebook) == notebook.cells[notebook.activeCellIndex]

\* notebook:insert-cell-below: a fresh cell after the active one, which becomes active
InsertCellBelow(notebook) ==
  LET a == notebook.activeCellIndex
  IN [cells |-> SubSeq(notebook.cells, 1, a) \o <<NewCell>>
                  \o SubSeq(notebook.cells, a + 1, Len(notebook.cells)),
      activeCellIndex |-> a + 1]

\* notebook:change-cell-to-markdown: the source is kept, the outputs are dropped
ChangeCellToMarkdown(notebook) ==
  [notebook EXCEPT !.cells[notebook.activeCellIndex] =
     [cell_type |-> "markdown", source |-> @.source, outputs |-> <<>>, runs |-> 0,
      busy |-> FALSE]]

\* notebook:replace-selection with an empty selection: the text goes in at the
\* cursor, which stays at the end of what was inserted
ReplaceSelection(notebook, text) ==
  [notebook EXCEPT !.cells[notebook.activeCellIndex].source = @ \o text]

\* notebook:run-cell: a markdown cell is rendered, a code cell goes to the kernel
RunCell(notebook) ==
  [notebook EXCEPT !.cells[notebook.activeCellIndex] =
     [@ EXCEPT !.runs = @ + 1, !.busy = (ActiveCell(notebook).cell_type = "code")]]

\* notebook:run-cell-and-insert-below
RunCellAndInsertBelow(notebook) == InsertCellBelow(RunCell(notebook))

\* the kernel finishes what it was sent: every busy cell gets the outputs
KernelDone(notebook, outputs) ==
  [notebook EXCEPT !.cells =
     [i \in 1..Len(notebook.cells) |->
        IF notebook.cells[i].busy
        THEN [notebook.cells[i] EXCEPT !.busy = FALSE, !.outputs = outputs]
        ELSE notebook.cells[i]]]

\* ------------------------------------------------------------------
\* Bounds and inputs
\* ------------------------------------------------------------------

\* activations of generateCompletion that can be suspended at the same time
MaxActive == 2
\* cells of the notebook
MaxCells == 3
\* cells of the notebook in the unattended sessions
MaxCellsUnattended == 8
\* idle handlers subscribed by currentChanged
MaxHandlers == 1
\* notebook panels added to the tracker
MaxWidgets == 1

Turns == 1..MaxActive

\* keys the user can type into the dialog
Keys == {"sk-1"}

\* the prompt the user types into an empty cell
PromptText == <<"p">>

\* '# Generating code...\n'
GeneratingComment ==
  <<"#", " ", "G", "e", "n", "e", "r", "a", "t", "i", "n", "g", " ", "c", "o", "d", "e",
    ".", ".", ".", NL>>

\* a stream increment: delta.content, or delta.function_call with its arguments
Content(text) == [isCall |-> FALSE, content |-> text, arguments |-> <<>>]
Call(text) == [isCall |-> TRUE, content |-> <<>>, arguments |-> text]

\* the responses of the backend the model draws from
StreamNarrative == <<Content(<<"H">>), Content(<<"i">>)>>
StreamCall ==
  <<Content(<<"H">>), Call(<<>>),
    Call(<<"{", QUOTE, "c", "o", "d", "e", QUOTE, ":", QUOTE, "x">>),
    Call(<<CR, NL>>), Call(<<QUOTE, "}">>)>>
StreamRawCode == <<Call(<<"x">>), Call(<<CR, NL>>)>>
StreamBadJson == <<Call(<<"{", "x">>)>>
StreamEmptyCall == <<Call(<<>>)>>
\* narrative that arrives after the function call has begun
StreamCallThenContent == <<Call(<<"x">>), Content(<<"H">>)>>

Streams ==
  {StreamNarrative, StreamCall, StreamRawCode, StreamBadJson, StreamEmptyCall,
   StreamCallThenContent}

\* error.toString() of the failures the backend produces, abbreviated
ErrorAuth == <<"4", "0", "1", " ", "A", "P", "I", " ", "k", "e", "y">>
ErrorNetwork == <<"n", "e", "t">>
ErrorTexts == {ErrorAuth, ErrorNetwork}
\* error.toString() of the SyntaxError JSON.parse throws, abbreviated
SyntaxError == <<"S", "y", "n", "t", "a", "x">>

\* what a code cell prints
KernelOutputs == {<<Output(TRUE, TRUE, <<"1">>, FALSE, <<>>, FALSE, <<>>, <<>>)>>}

\* String.prototype.includes
Includes(s, p) == \E i \in 1..(Len(s) - Len(p) + 1) : SubSeq(s, i, i + Len(p) - 1) = p

APIKeyText == <<"A", "P", "I", " ", "k", "e", "y">>

\* ------------------------------------------------------------------
\* State
\* ------------------------------------------------------------------

VARIABLES
  apiKey,                       \* var apiKey
  openai,                       \* var openai: the key the client was constructed with
  interpreterRunningCode,
  userRequestedStopGeneration,
  generateCodeButton,           \* TRUE when the button is shown
  stopGeneratingButton,
  widgets,                      \* notebook panels added so far
  handlers,                     \* statusChanged handlers connected so far
  notebook,                     \* the document: cells and activeCellIndex
  turns,                        \* the activations of generateCompletion
  start,                        \* the activation of startGeneratingCode
  dump,                         \* what the Dump Notebook button last produced
  stopped,                      \* history: stop was clicked and start not since
  finished                      \* history: a turn of narrative and no call ended, and start not since

vars == <<apiKey, openai, interpreterRunningCode, userRequestedStopGeneration,
          generateCodeButton, stopGeneratingButton, widgets, handlers, notebook, turns,
          start, dump, stopped, finished>>

\* the locals of one activation of generateCompletion, and where it is suspended
NoTurn ==
  [pc |-> "none", messages |-> <<>>, stream |-> <<>>, part |-> Content(<<>>),
   inFunctionCall |-> FALSE, allContent |-> <<>>, allFunctionArguments |-> <<>>,
   error |-> <<>>]

\* an activation that has returned: its locals are gone, how it ended is kept
Returned(turn, pc) == [NoTurn EXCEPT !.pc = pc]

\* an activation that has not returned
Live(turn) == turn.pc \in {"cellReady", "create", "stream", "codeCellReady"}

InFlight == {t \in Turns : Live(turns[t])}

Init ==
  /\ apiKey = ""
  /\ openai = ""
  /\ interpreterRunningCode = FALSE
  /\ userRequestedStopGeneration = FALSE
  /\ generateCodeButton = TRUE
  /\ stopGeneratingButton = TRUE
  /\ widgets = 0
  /\ handlers = 0
  /\ notebook = [cells |-> <<NewCell>>, activeCellIndex |-> 1]
  /\ turns = [t \in Turns |-> NoTurn]
  /\ start = "none"
  /\ dump = <<>>
  /\ stopped = FALSE
  /\ finished = FALSE

\* ------------------------------------------------------------------
\* generateCompletion
\* ------------------------------------------------------------------

\* the step leaves the notebook within n cells
Bounded(n) == Len(notebook'.cells) <= n

\* the slot a new activation takes: the first one holding no live activation
FreeSlot(ts) == CHOOSE t \in Turns : ~Live(ts[t]) /\ \A u \in 1..(t - 1) : Live(ts[u])

\* the entry with the transcript built last, over the inserted cell too
generateCompletionEntryBuildsLast(d) ==
  LET inserted == ChangeCellToMarkdown(InsertCellBelow(d.notebook))
  IN [notebook |-> inserted,
      turns |-> [d.turns EXCEPT ![FreeSlot(d.turns)] =
                   [NoTurn EXCEPT !.pc = "cellReady",
                                  !.messages = convertNotebookToMessages(inserted)]]]

\* generateCompletion from its entry to its first await (line 190): the
\* transcript is built, a cell is inserted below and turned to markdown.
\* d is the pair of the notebook and the activations
generateCompletionEntry(d) ==
  [notebook |-> ChangeCellToMarkdown(InsertCellBelow(d.notebook)),
   turns |-> [d.turns EXCEPT ![FreeSlot(d.turns)] =
                [NoTurn EXCEPT !.pc = "cellReady",
                               !.messages = convertNotebookToMessages(d.notebook)]]]

RECURSIVE EnterTimes(_, _)
\* n calls of generateCompletion made one after the other by the same signal
EnterTimes(d, n) == IF n = 0 THEN d ELSE EnterTimes(generateCompletionEntry(d), n - 1)

\* the model has slots for n more activations
Room(n) == Cardinality(Turns \ InFlight) >= n

\* line 192 and the request of line 195
CellReady(t) ==
  /\ turns[t].pc = "cellReady"
  /\ notebook' = ReplaceSelection(notebook, AssistantMarker \o <<NL>>)
  /\ turns' = [turns EXCEPT ![t].pc = "create"]
  /\ UNCHANGED <<apiKey, openai, interpreterRunningCode, userRequestedStopGeneration,
                 generateCodeButton, stopGeneratingButton, widgets, handlers, start, dump,
                 stopped, finished>>

\* the request resolves with a stream
CreateResolvesWith(t, stream) ==
  /\ turns[t].pc = "create"
  /\ turns' = [turns EXCEPT ![t].pc = "stream", ![t].stream = stream]
  /\ UNCHANGED <<apiKey, openai, interpreterRunningCode, userRequestedStopGeneration,
                 generateCodeButton, stopGeneratingButton, widgets, handlers, notebook,
                 start, dump, stopped, finished>>

CreateResolves(t) == \E stream \in Streams : CreateResolvesWith(t, stream)

\* the catch block clearing the key whatever the message says
CatchClearsKey(t, error) ==
  /\ apiKey' = ""
  /\ interpreterRunningCode' = FALSE
  /\ stopGeneratingButton' = FALSE
  /\ generateCodeButton' = TRUE
  /\ turns' = [turns EXCEPT ![t] = [Returned(@, "failed") EXCEPT !.error = error]]

\* the catch block of generateCompletion, for the activation t and the error text
Catch(t, error) ==
  /\ apiKey' = IF Includes(error, APIKeyText) THEN "" ELSE apiKey
  /\ interpreterRunningCode' = FALSE
  /\ stopGeneratingButton' = FALSE
  /\ generateCodeButton' = TRUE
  /\ turns' = [turns EXCEPT ![t] = [Returned(@, "failed") EXCEPT !.error = error]]

\* the request is rejected, or the stream throws while it is consumed
Fails(t) ==
  /\ turns[t].pc \in {"create", "stream"}
  /\ \E error \in ErrorTexts : Catch(t, error)
  /\ UNCHANGED <<openai, userRequestedStopGeneration, widgets, handlers, notebook, start,
                 dump, stopped, finished>>

\* lines 229-249: the increment is buffered or forwarded
Route(turn, part) ==
  IF turn.inFunctionCall
  THEN IF part.isCall
       THEN [turn EXCEPT !.allFunctionArguments =
               @ \o (IF part.arguments = <<CR, NL>> THEN <<NL>> ELSE part.arguments)]
       ELSE turn
  ELSE [turn EXCEPT !.allContent = @ \o part.content]

\* the increment's content written whatever the mode
ForwardedAlways(turn, part) == part.content

\* what Route writes into the active cell
Forwarded(turn, part) == IF turn.inFunctionCall THEN <<>> ELSE part.content

\* one iteration of the for await loop, up to its await of line 224 if it takes it
StreamPartWithin(t, n) ==
  /\ turns[t].pc = "stream"
  /\ turns[t].stream # <<>>
  /\ IF userRequestedStopGeneration
     THEN /\ userRequestedStopGeneration' = FALSE
          /\ turns' = [turns EXCEPT ![t] = Returned(@, "cancelled")]
          /\ UNCHANGED notebook
     ELSE LET part == Head(turns[t].stream)
              rest == Tail(turns[t].stream)
          IN /\ UNCHANGED userRequestedStopGeneration
             /\ IF ~turns[t].inFunctionCall /\ part.isCall
                THEN /\ notebook' = RunCellAndInsertBelow(notebook)
                     /\ turns' = [turns EXCEPT ![t] =
                                    [@ EXCEPT !.pc = "codeCellReady", !.stream = rest,
                                              !.part = part, !.inFunctionCall = TRUE]]
                ELSE /\ notebook' = ReplaceSelection(notebook, Forwarded(turns[t], part))
                     /\ turns' = [turns EXCEPT ![t] =
                                    [Route(@, part) EXCEPT !.stream = rest]]
  /\ Bounded(n)
  /\ UNCHANGED <<apiKey, openai, interpreterRunningCode, generateCodeButton,
                 stopGeneratingButton, widgets, handlers, start, dump, stopped, finished>>

StreamPart(t) == StreamPartWithin(t, MaxCells)

\* line 226 and the rest of the iteration that switched to the function call
CodeCellReady(t) ==
  /\ turns[t].pc = "codeCellReady"
  /\ notebook' = ReplaceSelection(notebook, GeneratingComment)
  /\ turns' = [turns EXCEPT ![t] = [Route(@, turns[t].part) EXCEPT !.pc = "stream"]]
  /\ UNCHANGED <<apiKey, openai, interpreterRunningCode, userRequestedStopGeneration,
                 generateCodeButton, stopGeneratingButton, widgets, handlers, start, dump,
                 stopped, finished>>

\* lines 268-278: what the parsed or raw arguments put into the active cell;
\* ok = FALSE when JSON.parse throws
Recovered(cleaned) ==
  IF StartsWith(cleaned, <<"{">>)
  THEN LET json == JsonParse(cleaned)
       IN IF ~json.ok THEN [ok |-> FALSE, write |-> FALSE, text |-> <<>>]
          ELSE IF JsonHas(json, KeyCode)
               THEN [ok |-> TRUE, write |-> TRUE, text |-> JsonGet(json, KeyCode).value]
               ELSE [ok |-> TRUE, write |-> FALSE, text |-> <<>>]
  ELSE [ok |-> TRUE, write |-> TRUE, text |-> cleaned]

\* the stream is exhausted: lines 252-296
StreamEndsWithin(t, n) ==
  /\ turns[t].pc = "stream"
  /\ turns[t].stream = <<>>
  /\ IF turns[t].allFunctionArguments # <<>>
     THEN LET cleaned == cleanJson(turns[t].allFunctionArguments)
              r == Recovered(cleaned)
          IN IF ~r.ok
             THEN /\ Catch(t, SyntaxError)
                  /\ UNCHANGED <<notebook, finished>>
             ELSE /\ notebook' = RunCell(IF r.write THEN ReplaceSelection(notebook, r.text)
                                         ELSE notebook)
                  /\ interpreterRunningCode' = TRUE
                  /\ turns' = [turns EXCEPT ![t] = Returned(@, "ranCode")]
                  /\ UNCHANGED <<apiKey, generateCodeButton, stopGeneratingButton, finished>>
     ELSE /\ interpreterRunningCode' = FALSE
          /\ stopGeneratingButton' = FALSE
          /\ generateCodeButton' = TRUE
          /\ notebook' = InsertCellBelow(RunCell(notebook))
          /\ turns' = [turns EXCEPT ![t] = Returned(@, "finished")]
          /\ finished' = (finished \/ (~turns[t].inFunctionCall /\ turns[t].allContent # <<>>))
          /\ UNCHANGED apiKey
  /\ Bounded(n)
  /\ UNCHANGED <<openai, userRequestedStopGeneration, widgets, handlers, start, dump,
                 stopped>>

StreamEnds(t) == StreamEndsWithin(t, MaxCells)

\* ------------------------------------------------------------------
\* Signals of the host
\* ------------------------------------------------------------------

\* tracker.widgetAdded: the buttons go into the panel's toolbar
WidgetAdded ==
  /\ widgets < MaxWidgets
  /\ widgets' = widgets + 1
  /\ stopGeneratingButton' = FALSE
  /\ UNCHANGED <<apiKey, openai, interpreterRunningCode, userRequestedStopGeneration,
                 generateCodeButton, handlers, notebook, turns, start, dump, stopped,
                 finished>>

\* tracker.currentChanged with a notebook: one more statusChanged handler
CurrentChanged ==
  /\ widgets > 0
  /\ handlers < MaxHandlers
  /\ handlers' = handlers + 1
  /\ UNCHANGED <<apiKey, openai, interpreterRunningCode, userRequestedStopGeneration,
                 generateCodeButton, stopGeneratingButton, widgets, notebook, turns, start,
                 dump, stopped, finished>>

\* statusChanged with status 'idle': every connected handler runs in turn
KernelIdleWithin(n) ==
  /\ handlers > 0
  /\ \E outputs \in KernelOutputs :
       LET d == [notebook |-> KernelDone(notebook, outputs), turns |-> turns]
       IN IF interpreterRunningCode
          THEN /\ Room(handlers)
               /\ notebook' = EnterTimes(d, handlers).notebook
               /\ turns' = EnterTimes(d, handlers).turns
          ELSE /\ notebook' = d.notebook
               /\ UNCHANGED turns
  /\ Bounded(n)
  /\ UNCHANGED <<apiKey, openai, interpreterRunningCode, userRequestedStopGeneration,
                 generateCodeButton, stopGeneratingButton, widgets, handlers, start, dump,
                 stopped, finished>>

KernelIdle == KernelIdleWithin(MaxCells)

\* ------------------------------------------------------------------
\* startGeneratingCode and stopGeneratingCode
\* ------------------------------------------------------------------

\* a dialog of startGeneratingCode is open and takes the user's input
Modal == start \in {"keyDialog", "keyError"}

\* the prompt checked after the cell was turned to markdown
StartWithKeyLateCheck(key) ==
  /\ openai' = key
  /\ IF ActiveCell(notebook).source = <<>>
     THEN /\ start' = "none"
          /\ notebook' = ChangeCellToMarkdown(notebook)
     ELSE /\ start' = "cellReady"
          /\ notebook' = RunCell(ChangeCellToMarkdown(notebook))

\* lines 343-361, reached with a key: the client is constructed, the prompt is
\* checked and the active cell is turned to markdown and run
StartWithKey(key) ==
  /\ openai' = key
  /\ IF ActiveCell(notebook).source = <<>>
     THEN /\ start' = "none"
          /\ UNCHANGED notebook
     ELSE /\ start' = "cellReady"
          /\ notebook' = RunCell(ChangeCellToMarkdown(notebook))

\* the user clicks Generate Code
StartClicked ==
  /\ widgets > 0
  /\ generateCodeButton
  /\ start = "none"
  /\ stopped' = FALSE
  /\ finished' = FALSE
  /\ IF apiKey = ""
     THEN /\ start' = "keyDialog"
          /\ UNCHANGED <<apiKey, openai, notebook>>
     ELSE /\ StartWithKey(apiKey)
          /\ UNCHANGED apiKey
  /\ UNCHANGED <<interpreterRunningCode, userRequestedStopGeneration, generateCodeButton,
                 stopGeneratingButton, widgets, handlers, turns, dump>>

\* InputDialog.getText resolves: value is '' when the dialog is dismissed
KeyDialogReturns ==
  /\ start = "keyDialog"
  /\ \E value \in Keys \cup {""} :
       /\ apiKey' = value
       /\ IF value = ""
          THEN /\ start' = "keyError"
               /\ UNCHANGED <<openai, notebook>>
          ELSE StartWithKey(value)
  /\ UNCHANGED <<interpreterRunningCode, userRequestedStopGeneration, generateCodeButton,
                 stopGeneratingButton, widgets, handlers, turns, dump, stopped, finished>>

\* the 'OpenAI API Key Required' message is dismissed: lines 337-340
KeyErrorDismissed ==
  /\ start = "keyError"
  /\ start' = "none"
  /\ interpreterRunningCode' = FALSE
  /\ stopGeneratingButton' = FALSE
  /\ generateCodeButton' = TRUE
  /\ UNCHANGED <<apiKey, openai, userRequestedStopGeneration, widgets, handlers, notebook,
                 turns, dump, stopped, finished>>

\* lines 363-366: the buttons are swapped and generateCompletion is called
StartCellReadyWithin(n) ==
  /\ start = "cellReady"
  /\ Room(1)
  /\ start' = "none"
  /\ generateCodeButton' = FALSE
  /\ stopGeneratingButton' = TRUE
  /\ LET d == generateCompletionEntry([notebook |-> notebook, turns |-> turns])
     IN /\ notebook' = d.notebook
        /\ turns' = d.turns
  /\ Bounded(n)
  /\ UNCHANGED <<apiKey, openai, interpreterRunningCode, userRequestedStopGeneration,
                 widgets, handlers, dump, stopped, finished>>

StartCellReady == StartCellReadyWithin(MaxCells)

\* stopGeneratingCode without generateCodeButton.show()
stopGeneratingCodeNoShow ==
  /\ widgets > 0
  /\ stopGeneratingButton
  /\ ~Modal
  /\ userRequestedStopGeneration' = TRUE
  /\ interpreterRunningCode' = FALSE
  /\ stopGeneratingButton' = FALSE
  /\ stopped' = TRUE
  /\ UNCHANGED <<apiKey, openai, generateCodeButton, widgets, handlers, notebook, turns,
                 start, dump, finished>>

stopGeneratingCode ==
  /\ widgets > 0
  /\ stopGeneratingButton
  /\ ~Modal
  /\ userRequestedStopGeneration' = TRUE
  /\ interpreterRunningCode' = FALSE
  /\ stopGeneratingButton' = FALSE
  /\ generateCodeButton' = TRUE
  /\ stopped' = TRUE
  /\ UNCHANGED <<apiKey, openai, widgets, handlers, notebook, turns, start, dump, finished>>

\* the user types a prompt into the empty active cell, while nothing runs
UserTypesPrompt ==
  /\ widgets > 0
  /\ start = "none"
  /\ InFlight = {}
  /\ ActiveCell(notebook).source = <<>>
  /\ notebook' = ReplaceSelection(notebook, PromptText)
  /\ UNCHANGED <<apiKey, openai, interpreterRunningCode, userRequestedStopGeneration,
                 generateCodeButton, stopGeneratingButton, widgets, handlers, turns, start,
                 dump, stopped, finished>>

Next ==
  \/ WidgetAdded
  \/ CurrentChanged
  \/ KernelIdle
  \/ UserTypesPrompt
  \/ StartClicked
  \/ KeyDialogReturns
  \/ KeyErrorDismissed
  \/ StartCellReady
  \/ stopGeneratingCode
  \/ \E t \in Turns : CellReady(t)
  \/ \E t \in Turns : CreateResolves(t)
  \/ \E t \in Turns : Fails(t)
  \/ \E t \in Turns : StreamPart(t)
  \/ \E t \in Turns : CodeCellReady(t)
  \/ \E t \in Turns : StreamEnds(t)

Spec == Init /\ [][Next]_vars

\* ------------------------------------------------------------------
\* Unattended sessions: the user starts a session and leaves it alone, and
\* the backend never fails.  Every behaviour is a behaviour of Spec with a
\* longer notebook.
\* ------------------------------------------------------------------

StreamsUnattended == {StreamNarrative, StreamRawCode}

NextUnattended ==
  \/ WidgetAdded
  \/ CurrentChanged
  \/ KernelIdleWithin(MaxCellsUnattended)
  \/ UserTypesPrompt
  \/ StartClicked
  \/ KeyDialogReturns
  \/ KeyErrorDismissed
  \/ StartCellReadyWithin(MaxCellsUnattended)
  \/ \E t \in Turns : CellReady(t)
  \/ \E t \in Turns : \E stream \in StreamsUnattended : CreateResolvesWith(t, stream)
  \/ \E t \in Turns : StreamPartWithin(t, MaxCellsUnattended)
  \/ \E t \in Turns : CodeCellReady(t)
  \/ \E t \in Turns : StreamEndsWithin(t, MaxCellsUnattended)

SpecUnattended == Init /\ [][NextUnattended]_vars

\* ------------------------------------------------------------------
\* The transcript builder on arbitrary notebooks: the Dump Notebook button
\* calls convertNotebookToMessages on the cells up to the active one.
\* ------------------------------------------------------------------

\* cells of a notebook given to the transcript builder
MaxTranscriptCells == 3

MarkdownCell(source) ==
  [cell_type |-> "markdown", source |-> source, outputs |-> <<>>, runs |-> 0, busy |-> FALSE]
CodeCell(source, outputs) ==
  [cell_type |-> "code", source |-> source, outputs |-> outputs, runs |-> 0, busy |-> FALSE]

TextOutput(text) == Output(TRUE, TRUE, text, FALSE, <<>>, FALSE, <<>>, <<>>)
ErrorOutput(ename, evalue) == Output(TRUE, FALSE, <<>>, FALSE, <<>>, TRUE, ename, evalue)
NotAnObject == Output(FALSE, FALSE, <<>>, FALSE, <<>>, FALSE, <<>>, <<>>)

\* a source with a quote and a newline in it
QuotedSource == <<"x", QUOTE, NL>>

CellSamples ==
  { MarkdownCell(AssistantMarker \o <<NL, "H">>),
    MarkdownCell(AssistantMarker),
    MarkdownCell(<<"H">>),
    CodeCell(QuotedSource, <<>>),
    CodeCell(QuotedSource, <<TextOutput(<<"1">>)>>),
    CodeCell(<<"y">>, <<NotAnObject, ErrorOutput(<<"E">>, <<"b">>)>>),
    CodeCell(<<"y">>, <<TextOutput(<<>>), NotAnObject>>) }

RECURSIVE CellSeqs(_)
\* the sequences of n sample cells
CellSeqs(n) ==
  IF n = 0 THEN {<<>>}
  ELSE {Append(cs, c) : cs \in CellSeqs(n - 1), c \in CellSamples}

InitTranscript ==
  /\ apiKey = ""
  /\ openai = ""
  /\ interpreterRunningCode = FALSE
  /\ userRequestedStopGeneration = FALSE
  /\ generateCodeButton = TRUE
  /\ stopGeneratingButton = FALSE
  /\ widgets = 1
  /\ handlers = 1
  /\ \E n \in 1..MaxTranscriptCells : \E cs \in CellSeqs(n) : \E a \in 1..n :
       notebook = [cells |-> cs, activeCellIndex |-> a]
  /\ turns = [t \in Turns |-> NoTurn]
  /\ start = "none"
  /\ dump = <<>>
  /\ stopped = FALSE
  /\ finished = FALSE

\* the click on Dump Notebook
DumpNotebook ==
  /\ dump = <<>>
  /\ dump' = convertNotebookToMessages(notebook)
  /\ UNCHANGED <<apiKey, openai, interpreterRunningCode, userRequestedStopGeneration,
                 generateCodeButton, stopGeneratingButton, widgets, handlers, notebook,
                 turns, start, stopped, finished>>

NextTranscript == DumpNotebook

SpecTranscript == InitTranscript /\ [][NextTranscript]_vars

\* ------------------------------------------------------------------
\* The repair of the argument buffer on arbitrary texts: the first turn of a
\* session, whose request has just resolved with a stream that carries one
\* function-call fragment.
\* ------------------------------------------------------------------

\* characters of the fragment
MaxRepairLen == 4
\* cells of the notebook in the first turn: the prompt, the assistant cell, the
\* code cell and the cell inserted at the end
MaxCellsRepair == 4

\* a quote, a backslash, a newline and an ordinary character
RepairAlphabet == {QUOTE, BSLASH, NL, "x"}

RECURSIVE RepairTexts(_)
\* the texts of n characters
RepairTexts(n) ==
  IF n = 0 THEN {<<>>}
  ELSE {Append(s, c) : s \in RepairTexts(n - 1), c \in RepairAlphabet}

\* the notebook when the request of the first turn resolves: the prompt cell,
\* turned to markdown and run, and the assistant cell with its marker
FirstTurnNotebook ==
  LET typed == ReplaceSelection([cells |-> <<NewCell>>, activeCellIndex |-> 1], PromptText)
      prompt == RunCell(ChangeCellToMarkdown(typed))
  IN ReplaceSelection(ChangeCellToMarkdown(InsertCellBelow(prompt)), AssistantMarker \o <<NL>>)

\* the transcript of the first turn: built over the prompt cell
FirstTurnMessages ==
  LET typed == ReplaceSelection([cells |-> <<NewCell>>, activeCellIndex |-> 1], PromptText)
  IN convertNotebookToMessages(RunCell(ChangeCellToMarkdown(typed)))

\* the session at the for await loop of its first turn, with the stream given
FirstTurnAt(stream) ==
  /\ apiKey \in Keys
  /\ openai = apiKey
  /\ interpreterRunningCode = FALSE
  /\ userRequestedStopGeneration = FALSE
  /\ generateCodeButton = FALSE
  /\ stopGeneratingButton = TRUE
  /\ widgets = 1
  /\ handlers = 1
  /\ notebook = FirstTurnNotebook
  /\ turns = [t \in Turns |->
                IF t = 1
                THEN [NoTurn EXCEPT !.pc = "stream", !.messages = FirstTurnMessages,
                                    !.stream = stream]
                ELSE NoTurn]
  /\ start = "none"
  /\ dump = <<>>
  /\ stopped = FALSE
  /\ finished = FALSE

InitRepair ==
  \E n \in 0..MaxRepairLen : \E s \in RepairTexts(n) : FirstTurnAt(<<Call(s)>>)

NextRepair ==
  \/ \E t \in Turns : StreamPartWithin(t, MaxCellsRepair)
  \/ \E t \in Turns : CodeCellReady(t)
  \/ \E t \in Turns : StreamEndsWithin(t, MaxCellsRepair)

SpecRepair == InitRepair /\ [][NextRepair]_vars

\* ------------------------------------------------------------------
\* The flattening of outputs on arbitrary lists of records: an assistant cell
\* followed by a code cell with these outputs, and the Dump Notebook button.
\* ------------------------------------------------------------------

\* records of the list of outputs
MaxOutputs == 3

DataOutput(plain) == Output(TRUE, FALSE, <<>>, TRUE, plain, FALSE, <<>>, <<>>)

\* a record with a text, a text/plain representation and an error
FullOutput == Output(TRUE, TRUE, <<"t">>, TRUE, <<"d">>, TRUE, <<"N">>, <<"v">>)

OutputSamples ==
  { TextOutput(<<"a">>),
    TextOutput(<<>>),
    DataOutput(<<"b">>),
    ErrorOutput(<<"E">>, <<"b", "a", "d">>),
    NotAnObject,
    FullOutput }

RECURSIVE OutputSeqs(_)
\* the lists of n sample records
OutputSeqs(n) ==
  IF n = 0 THEN {<<>>}
  ELSE {Append(os, o) : os \in OutputSeqs(n - 1), o \in OutputSamples}

InitOutputs ==
  /\ apiKey = ""
  /\ openai = ""
  /\ interpreterRunningCode = FALSE
  /\ userRequestedStopGeneration = FALSE
  /\ generateCodeButton = TRUE
  /\ stopGeneratingButton = FALSE
  /\ widgets = 1
  /\ handlers = 1
  /\ \E n \in 0..MaxOutputs : \E os \in OutputSeqs(n) :
       notebook = [cells |-> <<MarkdownCell(AssistantMarker), CodeCell(<<"y">>, os)>>,
                   activeCellIndex |-> 2]
  /\ turns = [t \in Turns |-> NoTurn]
  /\ start = "none"
  /\ dump = <<>>
  /\ stopped = FALSE
  /\ finished = FALSE

NextOutputs == DumpNotebook

SpecOutputs == InitOutputs /\ [][NextOutputs]_vars

\* ------------------------------------------------------------------
\* Sessions under fair scheduling: the toolbar is set up, a notebook is current
\* and a key is stored.  Every request resolves, every stream delivers its
\* increments and ends, every cell sent to the kernel brings an idle signal,
\* and the backend answers with a function call only while the notebook is
\* short.  The user types, starts and stops at will.
\* ------------------------------------------------------------------

\* cells of the notebook in the fair sessions: the longest notebook they reach,
\* so that the bound stops no step
MaxCellsFair == 8
\* the backend answers with a function call while the notebook has at most this many cells
MaxCellsCalling == 2
\* the user starts a session while the notebook has at most this many cells
MaxCellsStarting == 3

InitFair ==
  /\ apiKey \in Keys
  /\ openai = ""
  /\ interpreterRunningCode = FALSE
  /\ userRequestedStopGeneration = FALSE
  /\ generateCodeButton = TRUE
  /\ stopGeneratingButton = FALSE
  /\ widgets = 1
  /\ handlers = 1
  /\ notebook = [cells |-> <<NewCell>>, activeCellIndex |-> 1]
  /\ turns = [t \in Turns |-> NoTurn]
  /\ start = "none"
  /\ dump = <<>>
  /\ stopped = FALSE
  /\ finished = FALSE

\* a cell is with the kernel
Busy == \E i \in 1..Len(notebook.cells) : notebook.cells[i].busy

\* the idle signal that follows the execution of a cell
KernelIdleAfterRun == Busy /\ KernelIdleWithin(MaxCellsFair)

\* the request resolves; with a function call only while the notebook is short
CreateResolvesShort(t) ==
  \E stream \in StreamsUnattended :
    /\ stream = StreamNarrative \/ Len(notebook.cells) <= MaxCellsCalling
    /\ CreateResolvesWith(t, stream)

\* the user clicks Generate Code while the notebook is short
StartClickedShort == Len(notebook.cells) <= MaxCellsStarting /\ StartClicked

StartCellReadyFair == StartCellReadyWithin(MaxCellsFair)
StreamPartFair(t) == StreamPartWithin(t, MaxCellsFair)
StreamEndsFair(t) == StreamEndsWithin(t, MaxCellsFair)

NextFair ==
  \/ UserTypesPrompt
  \/ StartClickedShort
  \/ stopGeneratingCode
  \/ StartCellReadyFair
  \/ KernelIdleAfterRun
  \/ \E t \in Turns : CellReady(t)
  \/ \E t \in Turns : CreateResolvesShort(t)
  \/ \E t \in Turns : StreamPartFair(t)
  \/ \E t \in Turns : CodeCellReady(t)
  \/ \E t \in Turns : StreamEndsFair(t)

\* what the host and the backend are bound to do
Fairness ==
  /\ WF_vars(StartCellReadyFair)
  /\ WF_vars(KernelIdleAfterRun)
  /\ \A t \in Turns :
       /\ WF_vars(CellReady(t))
       /\ WF_vars(CreateResolvesShort(t))
       /\ WF_vars(StreamPartFair(t))
       /\ WF_vars(CodeCellReady(t))
       /\ WF_vars(StreamEndsFair(t))

SpecFair == InitFair /\ [][NextFair]_vars /\ Fairness

\* ------------------------------------------------------------------
\* Claims
\* ------------------------------------------------------------------

\* an activation is entered in this step
Entered(t) == ~Live(turns[t]) /\ turns'[t].pc = "cellReady"

\* an activation is entered by the idle handler: startGeneratingCode is not the caller
EnteredByIdle == (\E t \in Turns : Entered(t)) /\ start' = start

\* the activation t takes an increment of its stream and goes on
Forwards(t) ==
  /\ turns[t].pc = "stream"
  /\ Live(turns'[t])
  /\ Len(turns'[t].stream) < Len(turns[t].stream)

\* C1: once stopGeneratingCode was invoked, and until startGeneratingCode is
\* invoked again, no activation takes a further increment,
\* interpreterRunningCode is false in every state, and no kernel-idle signal
\* enters generateCompletion.
C1_StopHalts ==
  [][stopped' =>
       /\ ~interpreterRunningCode'
       /\ (stopped => ~\E t \in Turns : Forwards(t))
       /\ (stopped => ~EnteredByIdle)]_vars

\* C2: at most one activation of generateCompletion is in flight.
C2_OneTurnInFlight == Cardinality(InFlight) <= 1

\* startGeneratingCode calls generateCompletion: a session starts
SessionStarts == start = "cellReady" /\ start' = "none"

\* C3: whenever a session is started the cancellation flag is false (every stop
\* was consumed by the session it was issued in), so the first increment of the
\* new session is not aborted by an earlier stop.
C3_StopConsumedBySession ==
  [][SessionStarts => ~userRequestedStopGeneration]_vars

\* the activation t reaches the catch block in this step
Caught(t) == Live(turns[t]) /\ turns'[t].pc = "failed"

\* C4: after any failure caught in a turn, the running flag and the
\* cancellation flag are false, Generate Code is shown and Stop Generating hidden.
C4_FailureResetsFlags ==
  [][\A t \in Turns : Caught(t) =>
       /\ ~interpreterRunningCode'
       /\ ~userRequestedStopGeneration'
       /\ generateCodeButton'
       /\ ~stopGeneratingButton']_vars

\* the code after the loop runs for the activation t in this step
AfterLoop(t) ==
  /\ turns[t].pc = "stream"
  /\ turns[t].stream = <<>>
  /\ \/ turns'[t].pc \in {"ranCode", "finished"}
     \/ turns'[t].pc = "failed" /\ turns'[t].error = SyntaxError

\* C5: a non-empty argument buffer that is no JSON object is never fatal: the
\* turn does not end in the catch block, the buffered text is written into the
\* code cell as raw code and the cell is executed.
C5_MalformedPayloadNotFatal ==
  [][\A t \in Turns :
       (/\ AfterLoop(t)
        /\ turns[t].allFunctionArguments # <<>>
        /\ ~JsonParse(cleanJson(turns[t].allFunctionArguments)).ok)
       => /\ turns'[t].pc = "ranCode"
          /\ interpreterRunningCode'
          /\ notebook' = RunCell(ReplaceSelection(notebook, turns[t].allFunctionArguments))]_vars

\* the activation t, whose stream carried narrative and no function call, runs
\* the code after its loop in this step
NarrativeTurnEnds(t) ==
  /\ AfterLoop(t)
  /\ ~turns[t].inFunctionCall
  /\ turns[t].allContent # <<>>

\* C6: a turn whose stream carries narrative and no function-call increment
\* ends with interpreterRunningCode false and Generate Code shown, the cell it
\* runs is its markdown cell and no code cell is sent to the kernel, and no
\* later kernel-idle signal enters generateCompletion before the next start.
C6_NarrativeTurnTerminates ==
  [][/\ \A t \in Turns : NarrativeTurnEnds(t) =>
          /\ turns'[t].pc = "finished"
          /\ ~interpreterRunningCode'
          /\ generateCodeButton'
          /\ ~stopGeneratingButton'
          /\ ActiveCell(notebook).cell_type = "markdown"
          /\ \A i \in 1..Len(notebook'.cells) : ~notebook'.cells[i].busy \/
               (i <= Len(notebook.cells) /\ notebook.cells[i].busy)
     /\ finished => ~EnteredByIdle]_vars

\* the user clicks Generate Code in this step
StartStep == StartClicked

\* C7: the stored API key is reset to empty exactly when a caught failure's
\* message contains "API key": only such a failure empties a stored key, a
\* failure with another message, a cancellation and a termination leave the key
\* as it is, and a start made with the key empty opens the key dialog and
\* reaches generateCompletion only with a key typed.
C7_KeyClearedOnAuthFailure ==
  [][/\ (apiKey # "" /\ apiKey' = "") =>
          \E t \in Turns : Caught(t) /\ Includes(turns'[t].error, APIKeyText)
     /\ \A t \in Turns : Caught(t) =>
          apiKey' = (IF Includes(turns'[t].error, APIKeyText) THEN "" ELSE apiKey)
     /\ \A t \in Turns :
          (Live(turns[t]) /\ turns'[t].pc \in {"cancelled", "finished", "ranCode"})
          => apiKey' = apiKey
     /\ (StartStep /\ apiKey = "") => (start' = "keyDialog" /\ turns' = turns)
     /\ (start = "keyDialog" /\ start' = "cellReady") => apiKey' \in Keys]_vars

\* the key was emptied by a failure whose message names the API key
C7_Witness ==
  /\ apiKey = ""
  /\ openai # ""
  /\ \E t \in Turns : turns[t].pc = "failed" /\ Includes(turns[t].error, APIKeyText)

\* startGeneratingCode returns at the empty prompt (line 357) in this step
EmptyPromptAbort ==
  /\ StartClicked \/ KeyDialogReturns
  /\ start' = "none"
  /\ ActiveCell(notebook).source = <<>>

\* C8 as stated: a start with an empty prompt changes nothing, the API key and
\* the client included, also when the user typed a key into the dialog.
C8_EmptyPromptNoChange ==
  [][EmptyPromptAbort =>
       UNCHANGED <<apiKey, openai, interpreterRunningCode, userRequestedStopGeneration,
                   generateCodeButton, stopGeneratingButton, notebook, turns>>]_vars

\* C8 as amended: a start with an empty prompt leaves the running flag, the
\* cancellation flag, the buttons and the notebook as they are; a key already
\* stored stays and the client is constructed with it, and a key typed into the
\* dialog is stored and the client is constructed with it.
C8_EmptyPromptKeepsSession ==
  [][EmptyPromptAbort =>
       /\ UNCHANGED <<interpreterRunningCode, userRequestedStopGeneration,
                      generateCodeButton, stopGeneratingButton, notebook, turns>>
       /\ apiKey' \in Keys
       /\ openai' = apiKey'
       /\ (start = "none" => UNCHANGED <<apiKey, openai>>)]_vars

\* a key was typed and stored although the only cell holds no prompt
C8_Witness ==
  /\ apiKey \in Keys
  /\ openai = apiKey
  /\ start = "none"
  /\ Len(notebook.cells) = 1
  /\ ActiveCell(notebook).source = <<>>

\* exactly one of the two buttons is shown
OneButtonShown == generateCodeButton # stopGeneratingButton

AssistantPair(i) ==
  /\ i + 1 <= notebook.activeCellIndex
  /\ notebook.cells[i].cell_type = "markdown"
  /\ StartsWith(notebook.cells[i].source, AssistantMarker)
  /\ notebook.cells[i + 1].cell_type = "code"
  /\ parseCellOutput(notebook.cells[i + 1].outputs) # <<>>

\* the arguments text is the JSON of {language: "python", code: source}
IsRunCodeJson(arguments, source) ==
  LET json == JsonParse(arguments)
  IN /\ json.ok
     /\ Len(json.members) = 2
     /\ JsonHas(json, KeyLanguage) /\ JsonGet(json, KeyLanguage).value = Python
     /\ JsonHas(json, KeyCode) /\ JsonGet(json, KeyCode).value = source

\* C10: every cell gives one message, and an assistant markdown cell followed by
\* a code cell with output gives one assistant message carrying the function
\* call run_code with the JSON of the source, followed by one function message
\* with the flattened output; neither of the two is a user message.
C10_AssistantPairIsFunctionCall ==
  dump # <<>> =>
    /\ Len(dump) = notebook.activeCellIndex + 1
    /\ \A i \in 1..Len(notebook.cells) : AssistantPair(i) =>
         /\ dump[i + 1].role = "assistant"
         /\ dump[i + 1].content = StripMarker(notebook.cells[i].source)
         /\ dump[i + 1].has_function_call
         /\ dump[i + 1].function_call.name = "run_code"
         /\ IsRunCodeJson(dump[i + 1].function_call.arguments, notebook.cells[i + 1].source)
         /\ dump[i + 2].role = "function"
         /\ dump[i + 2].name = "run_code"
         /\ dump[i + 2].content = parseCellOutput(notebook.cells[i + 1].outputs)
         /\ ~dump[i + 2].has_function_call

\* a transcript was built over an assistant cell followed by a code cell with output
C10_Witness ==
  /\ dump # <<>>
  /\ \E i \in 1..Len(notebook.cells) : AssistantPair(i)

\* the message k of the transcript is a function message
IsFunctionMessage(messages, k) == messages[k].role = "function"

\* C11: in every transcript the Dump Notebook button produces, a function
\* message comes right after an assistant message whose function_call names
\* run_code, and a message with a function_call is an assistant message that is
\* followed at once by a function message.
C11_FunctionFollowsAssistantCall ==
  dump # <<>> =>
    \A k \in 1..Len(dump) :
      /\ IsFunctionMessage(dump, k) =>
           /\ k > 1
           /\ dump[k - 1].role = "assistant"
           /\ dump[k - 1].has_function_call
           /\ dump[k - 1].function_call.name = "run_code"
      /\ dump[k].has_function_call =>
           /\ dump[k].role = "assistant"
           /\ k < Len(dump)
           /\ IsFunctionMessage(dump, k + 1)
           /\ dump[k + 1].name = "run_code"

\* a transcript with a function message, and with a code cell with output that
\* follows no assistant message and became a user message
C11_Witness ==
  /\ dump # <<>>
  /\ \E k \in 1..Len(dump) : IsFunctionMessage(dump, k)
  /\ \E i \in 1..notebook.activeCellIndex :
       /\ notebook.cells[i].cell_type = "code"
       /\ parseCellOutput(notebook.cells[i].outputs) # <<>>
       /\ dump[i + 1].role = "user"

RECURSIVE cleanJsonReferenceFrom(_, _, _, _, _)
\* the repair that honours escapes: inside a string a backslash that is not
\* itself escaped escapes the next character, and only a quote that is not
\* escaped toggles
cleanJsonReferenceFrom(text, i, inString, escaped, out) ==
  IF i > Len(text) THEN out
  ELSE LET c == text[i]
           q == IF c = QUOTE /\ ~escaped THEN ~inString ELSE inString
           e == inString /\ c = BSLASH /\ ~escaped
       IN IF c = NL /\ q
          THEN cleanJsonReferenceFrom(text, i + 1, q, e, out \o <<BSLASH, "n">>)
          ELSE cleanJsonReferenceFrom(text, i + 1, q, e, Append(out, c))

cleanJsonReference(text) == cleanJsonReferenceFrom(text, 1, FALSE, FALSE, <<>>)

\* C12: cleanJson agrees with the repair that honours escapes: for every
\* buffer over quote, backslash, newline and an ordinary character, what the
\* code after the loop writes into the code cell is the buffer with each
\* newline inside a string, as delimited by the quotes that are not escaped,
\* replaced by backslash-n, and every other character copied in order.
C12_CleanJsonEscapeAware ==
  [][\A t \in Turns :
       (AfterLoop(t) /\ turns[t].allFunctionArguments # <<>>)
       => ActiveCell(notebook').source =
            ActiveCell(notebook).source \o cleanJsonReference(turns[t].allFunctionArguments)]_vars

\* what the claim has one record contribute
Contribution(o) ==
  IF ~o.isObject THEN <<>>
  ELSE LET text == IF o.hasText THEN o.text ELSE <<>>
           plain == IF o.hasData THEN o.plain ELSE <<>>
           error == IF o.hasEname THEN o.ename \o <<":", " ">> \o o.evalue ELSE <<>>
       IN text \o plain \o error

RECURSIVE Flattened(_, _)
\* the contributions of the first n records, in list order
Flattened(outputs, n) ==
  IF n = 0 THEN <<>> ELSE Flattened(outputs, n - 1) \o Contribution(outputs[n])

\* C13: the flattened output of a code cell is the concatenation, in list
\* order, of each record's text, then its text/plain representation, then its
\* error name, a colon, a space and its error value; a record that is no object
\* adds nothing and an empty list gives the empty text.  The transcript shows
\* it: as the content of the function message when it is not empty, and as the
\* empty tail of the fenced user message when it is.
C13_OutputsFlattenedInOrder ==
  dump # <<>> =>
    LET cell == notebook.cells[2]
        expected == Flattened(cell.outputs, Len(cell.outputs))
    IN /\ Len(dump) = 3
       /\ IF expected # <<>>
          THEN dump[3].role = "function" /\ dump[3].content = expected
          ELSE dump[3] = Message("user", FencedCode(cell.source, <<>>))
       /\ cell.outputs = <<>> => expected = <<>>

\* the records [{text: "a"}, {data: {"text/plain": "b"}}, {ename: "E", evalue:
\* "bad"}] flattened to "abE: bad"
C13_Witness ==
  /\ dump # <<>>
  /\ notebook.cells[2].outputs =
       <<TextOutput(<<"a">>), DataOutput(<<"b">>), ErrorOutput(<<"E">>, <<"b", "a", "d">>)>>
  /\ dump[3].content = <<"a", "b", "E", ":", " ", "b", "a", "d">>

\* no turn is in flight, the running flag is false and Generate Code is shown
Terminal == InFlight = {} /\ ~interpreterRunningCode /\ generateCodeButton

\* C14: under fair scheduling, with a backend that in the end answers with no
\* function call, a session the user has not stopped leads to a state with no
\* turn in flight, interpreterRunningCode false and Generate Code shown: the
\* loop goes on until then and does not stop short of it.
C14_SessionTerminates == (InFlight # {} /\ ~stopped) ~> (Terminal \/ stopped)

\* the activation t switches to the function call in this step
Switches(t) == ~turns[t].inFunctionCall /\ turns'[t].inFunctionCall

\* C15: a turn switches to the function call at most once, on the first
\* increment that carries a function call, and never back; at the switch one
\* fresh code cell is inserted, before any argument text is buffered or
\* written; after the switch the turn inserts no further cell and writes no
\* increment into the notebook.
C15_SwitchesOnce ==
  [][\A t \in Turns :
       /\ (turns[t].inFunctionCall /\ Live(turns'[t])) => turns'[t].inFunctionCall
       /\ (Forwards(t) /\ ~turns[t].inFunctionCall /\ Head(turns[t].stream).isCall)
            => (Switches(t) /\ turns'[t].pc = "codeCellReady")
       /\ Switches(t) =>
            /\ Forwards(t)
            /\ Head(turns[t].stream).isCall
            /\ Len(notebook'.cells) = Len(notebook.cells) + 1
            /\ ActiveCell(notebook') = NewCell
            /\ turns'[t].allFunctionArguments = <<>>
       /\ (Forwards(t) /\ turns[t].inFunctionCall) => notebook' = notebook
       /\ turns[t].allFunctionArguments # <<>> => turns[t].inFunctionCall]_vars

\* a turn has taken a narrative increment after its switch: its buffer holds
\* the one fragment and its stream is exhausted
C15_Witness ==
  \E t \in Turns :
    /\ turns[t].pc = "stream"
    /\ turns[t].inFunctionCall
    /\ turns[t].stream = <<>>
    /\ turns[t].allFunctionArguments = <<"x">>

\* the fragment as it is buffered: CR LF alone becomes LF
Normalized(arguments) == IF arguments = <<CR, NL>> THEN <<NL>> ELSE arguments

\* the activation t takes a narrative increment in narrative mode in this step
NarrativeStep(t) ==
  Forwards(t) /\ ~turns[t].inFunctionCall /\ ~Head(turns[t].stream).isCall

\* C16: each narrative increment is appended, in the order received, to the
\* turn's markdown cell, which so holds the marker and the narrative received;
\* each function-call fragment is appended, in the order received, to the
\* buffer, CR LF alone as LF, and is written nowhere; the buffer is repaired
\* and parsed only when the stream is exhausted.
C16_StreamKeptInOrder ==
  [][\A t \in Turns :
       /\ NarrativeStep(t) =>
            /\ turns'[t].allContent = turns[t].allContent \o Head(turns[t].stream).content
            /\ ActiveCell(notebook).cell_type = "markdown"
            /\ ActiveCell(notebook).source = AssistantMarker \o <<NL>> \o turns[t].allContent
            /\ notebook' = ReplaceSelection(notebook, Head(turns[t].stream).content)
            /\ turns'[t].allFunctionArguments = <<>>
       /\ (Forwards(t) /\ turns[t].inFunctionCall) =>
            /\ turns'[t].allFunctionArguments =
                 turns[t].allFunctionArguments \o
                   (IF Head(turns[t].stream).isCall
                    THEN Normalized(Head(turns[t].stream).arguments) ELSE <<>>)
            /\ turns'[t].allContent = turns[t].allContent
            /\ notebook' = notebook
       /\ (turns[t].pc = "codeCellReady" /\ turns'[t].pc = "stream") =>
            /\ turns'[t].allFunctionArguments = Normalized(turns[t].part.arguments)
            /\ turns'[t].allContent = turns[t].allContent
       /\ (Live(turns[t]) /\ (turns'[t].pc = "ranCode" \/ turns'[t].error = SyntaxError))
            => turns[t].stream = <<>>]_vars

\* the activation t, at its loop, takes a step in this step
LoopStep(t) == turns[t].pc = "stream" /\ turns'[t] # turns[t]

\* C17: a turn at its loop while the cancellation flag is set (the user has
\* clicked Stop Generating since the turn last tested the flag) is abandoned:
\* unless its stream throws, its next step clears the flag and returns, nothing
\* is parsed, nothing is written into the notebook and no cell is run.
C17_CancelledTurnAbandoned ==
  [][\A t \in Turns :
       (userRequestedStopGeneration /\ LoopStep(t) /\ ~Caught(t)) =>
         /\ turns'[t].pc = "cancelled"
         /\ ~userRequestedStopGeneration'
         /\ notebook' = notebook
         /\ interpreterRunningCode' = interpreterRunningCode]_vars

\* the code after the loop runs for the activation t with an empty buffer
EndsWithEmptyBuffer(t) == AfterLoop(t) /\ turns[t].allFunctionArguments = <<>>

\* C18: when a turn's stream ends with the buffer empty, also after a switch to
\* the function call whose fragments were all empty, the cell the turn runs is
\* its assistant markdown cell, not a code cell, and one fresh empty cell is
\* inserted below it.
C18_EmptyBufferRunsMarkdown ==
  [][\A t \in Turns : EndsWithEmptyBuffer(t) =>
       /\ turns'[t].pc = "finished"
       /\ ActiveCell(notebook).cell_type = "markdown"
       /\ StartsWith(ActiveCell(notebook).source, AssistantMarker)
       /\ notebook' = InsertCellBelow(RunCell(notebook))
       /\ ActiveCell(notebook') = NewCell
       /\ \A i \in 1..Len(notebook'.cells) : ~notebook'.cells[i].busy]_vars

\* the notebooks an activation entered in this step can have found: the
\* notebook as it is, or as the kernel's outputs leave it
FoundAtEntry == {notebook} \cup {KernelDone(notebook, outputs) : outputs \in KernelOutputs}

\* the activation t issues its request in this step
Requests(t) == turns[t].pc = "cellReady" /\ turns'[t].pc = "create"

Quiet == InFlight = {} /\ ~Busy /\ start = "none"

\* C20: once the toolbar is set up, whenever nothing is going on Generate Code
\* is shown, Stop Generating is hidden and interpreterRunningCode is false: the
\* user can start a session and no kernel-idle signal starts a turn.
C20_NeverStuck ==
  (widgets > 0 /\ Quiet) =>
    (generateCodeButton /\ ~stopGeneratingButton /\ ~interpreterRunningCode)

====
